---- MODULE Spec2Model ----
(***************************************************************************)
(* Model of AstuteRAG.py: the Document record, the three LLM-backed stages *)
(* (generate_internal_knowledge, consolidate_knowledge, finalize_answer)   *)
(* and the orchestrator answer_question.                                   *)
(*                                                                         *)
(* Representation.                                                         *)
(*   - A Python str is a sequence of one-character strings (a Text).       *)
(*   - A Python value produced by json.loads is a record with the fields   *)
(*     t (type tag), s (str payload), n (int/bool payload), items (list    *)
(*     elements or dict values) and keys (dict keys, insertion order).     *)
(*   - json.loads is a recursive-descent parser over the characters; it    *)
(*     covers strings without escapes, non-negative integers, the three    *)
(*     literals, arrays and objects, which is the whole of JSON over the   *)
(*     characters the modelled responses use.                              *)
(*   - A prompt is the record of the template that is used and of the      *)
(*     exact texts interpolated into it; the fixed template wording is not *)
(*     spelled out.                                                        *)
(*   - An exception is a result with raised = TRUE.                        *)
(***************************************************************************)
EXTENDS Integers, Sequences, FiniteSets, TLC

(***************************************************************************)
(* Bounds of the model.                                                    *)
(***************************************************************************)
MaxPassages == 2
MaxGenerated == 2

(***************************************************************************)
(* Text helpers (Python str operations).                                   *)
(***************************************************************************)
Whitespace == {" ", "\n"}
Digits == <<"0", "1", "2", "3", "4", "5", "6", "7", "8", "9">>
DigitSet == {Digits[i] : i \in 1..10}

DigitValue(c) == (CHOOSE i \in 1..10 : Digits[i] = c) - 1

\* s[from..] as a sequence (empty when from > Len(s))
Drop(s, k) == SubSeq(s, k + 1, Len(s))

\* str.startswith
StartsWith(s, p) == Len(p) <= Len(s) /\ SubSeq(s, 1, Len(p)) = p

\* the Python operator `p in s` on strings
Contains(s, p) == \E i \in 0..(Len(s) - Len(p)) : SubSeq(s, i + 1, i + Len(p)) = p

\* str.strip() without arguments
strip(s) ==
  LET keep == {i \in 1..Len(s) : s[i] \notin Whitespace}
      Min(S) == CHOOSE x \in S : \A y \in S : x <= y
      Max(S) == CHOOSE x \in S : \A y \in S : x >= y
  IN  IF keep = {} THEN <<>> ELSE SubSeq(s, Min(keep), Max(keep))

\* str(i) of a non-negative int
RECURSIVE Dec(_)
Dec(n) == IF n < 10 THEN <<Digits[n + 1]>> ELSE Dec(n \div 10) \o <<Digits[(n % 10) + 1]>>

\* sep.join(parts) for a sequence of Texts
RECURSIVE Join(_, _)
Join(sep, parts) ==
  IF parts = <<>> THEN <<>>
  ELSE IF Len(parts) = 1 THEN parts[1]
  ELSE parts[1] \o sep \o Join(sep, Tail(parts))

(***************************************************************************)
(* Text literals that occur in the source.                                 *)
(***************************************************************************)
S_IDontKnow == <<"I", " ", "d", "o", "n", "'", "t", " ", "k", "n", "o", "w">>
S_internal == <<"i", "n", "t", "e", "r", "n", "a", "l">>
S_internal_0 == <<"i", "n", "t", "e", "r", "n", "a", "l", "_", "0">>
S_external == <<"e", "x", "t", "e", "r", "n", "a", "l">>
S_external_ == <<"e", "x", "t", "e", "r", "n", "a", "l", "_">>
S_consolidated_ == <<"c", "o", "n", "s", "o", "l", "i", "d", "a", "t", "e", "d", "_">>
S_content == <<"c", "o", "n", "t", "e", "n", "t">>
S_source == <<"s", "o", "u", "r", "c", "e">>
S_consistency_group ==
  <<"c", "o", "n", "s", "i", "s", "t", "e", "n", "c", "y", "_", "g", "r", "o", "u", "p">>
S_answer == <<"a", "n", "s", "w", "e", "r">>
S_Document == <<"D", "o", "c", "u", "m", "e", "n", "t", " ">>
S_Initial == <<"I", "n", "i", "t", "i", "a", "l", " ">>
S_Consolidated == <<"C", "o", "n", "s", "o", "l", "i", "d", "a", "t", "e", "d", " ">>
S_null == <<"n", "u", "l", "l">>
S_true == <<"t", "r", "u", "e">>
S_false == <<"f", "a", "l", "s", "e">>
S_None == <<"N", "o", "n", "e">>
S_True == <<"T", "r", "u", "e">>
S_False == <<"F", "a", "l", "s", "e">>

(***************************************************************************)
(* Python values.                                                          *)
(***************************************************************************)
PyVal(t, s, n, items, keys) == [t |-> t, s |-> s, n |-> n, items |-> items, keys |-> keys]
PyNone == PyVal("None", <<>>, 0, <<>>, <<>>)
PyStr(s) == PyVal("str", s, 0, <<>>, <<>>)
PyInt(n) == PyVal("int", <<>>, n, <<>>, <<>>)
PyBool(b) == PyVal("bool", <<>>, IF b THEN 1 ELSE 0, <<>>, <<>>)
PyList(items) == PyVal("list", <<>>, 0, items, <<>>)
PyDict(keys, items) == PyVal("dict", <<>>, 0, items, keys)
\* a local variable that has not been assigned yet
Unset == PyVal("unset", <<>>, 0, <<>>, <<>>)

\* d[k] = v on a dict: a repeated key keeps its position and takes the new value
DictPut(d, k, v) ==
  IF \E i \in 1..Len(d.keys) : d.keys[i] = k
  THEN LET i == CHOOSE j \in 1..Len(d.keys) : d.keys[j] = k
       IN  PyDict(d.keys, [d.items EXCEPT ![i] = v])
  ELSE PyDict(Append(d.keys, k), Append(d.items, v))

HasKey(d, k) == \E i \in 1..Len(d.keys) : d.keys[i] = k
DictGet(d, k) == d.items[CHOOSE i \in 1..Len(d.keys) : d.keys[i] = k]

\* repr() of a str that holds no double quote, backslash or control character
ReprStr(s) ==
  IF \E i \in 1..Len(s) : s[i] = "'"
  THEN <<"\"">> \o s \o <<"\"">>
  ELSE <<"'">> \o s \o <<"'">>

\* repr() of a Python value
RECURSIVE PyRepr(_)
PyRepr(v) ==
  CASE v.t = "str" -> ReprStr(v.s)
    [] v.t = "int" -> Dec(v.n)
    [] v.t = "bool" -> IF v.n = 1 THEN S_True ELSE S_False
    [] v.t = "list" ->
         <<"[">> \o Join(<<",", " ">>, [i \in 1..Len(v.items) |-> PyRepr(v.items[i])]) \o <<"]">>
    [] v.t = "dict" ->
         <<"{">> \o Join(<<",", " ">>,
                     [i \in 1..Len(v.keys) |->
                        ReprStr(v.keys[i]) \o <<":", " ">> \o PyRepr(v.items[i])])
         \o <<"}">>
    [] OTHER -> S_None

\* str() of a Python value, as an f-string replacement field formats it
PyFormat(v) == IF v.t = "str" THEN v.s ELSE PyRepr(v)

(***************************************************************************)
(* json.loads: a recursive-descent parser over the characters.  Numbers    *)
(* are the non-negative integers (a fraction or exponent part, a minus     *)
(* sign and string escapes do not occur in the modelled responses).        *)
(***************************************************************************)
ParseFail == [ok |-> FALSE, v |-> PyNone, rest |-> <<>>]
ParseOk(v, rest) == [ok |-> TRUE, v |-> v, rest |-> rest]

\* skip JSON whitespace
SkipWs(s) ==
  LET idx == {i \in 1..Len(s) : s[i] \notin Whitespace}
  IN  IF idx = {} THEN <<>> ELSE Drop(s, (CHOOSE i \in idx : \A j \in idx : i <= j) - 1)

\* s is the text after an opening quote
ParseString(s) ==
  LET q == {i \in 1..Len(s) : s[i] = "\""}
  IN  IF q = {} THEN ParseFail
      ELSE LET e == CHOOSE i \in q : \A j \in q : i <= j
           IN  IF \E i \in 1..(e - 1) : s[i] = "\n" THEN ParseFail
               ELSE ParseOk(PyStr(SubSeq(s, 1, e - 1)), Drop(s, e))

RECURSIVE DigitsValue(_)
DigitsValue(d) ==
  IF d = <<>> THEN 0
  ELSE DigitsValue(SubSeq(d, 1, Len(d) - 1)) * 10 + DigitValue(d[Len(d)])

\* s starts with a digit
ParseNumber(s) ==
  LET nd == {i \in 1..Len(s) : s[i] \notin DigitSet}
      k == IF nd = {} THEN Len(s) ELSE (CHOOSE i \in nd : \A j \in nd : i <= j) - 1
  IN  IF s[1] = "0" THEN ParseOk(PyInt(0), Drop(s, 1))
      ELSE ParseOk(PyInt(DigitsValue(SubSeq(s, 1, k))), Drop(s, k))

RECURSIVE ParseValue(_), ParseArrayItems(_, _), ParseObjectItems(_, _)

ParseValue(s0) ==
  LET s == SkipWs(s0)
  IN  IF s = <<>> THEN ParseFail
      ELSE CASE s[1] = "\"" -> ParseString(Tail(s))
             [] s[1] \in DigitSet -> ParseNumber(s)
             [] s[1] = "[" ->
                  LET t == SkipWs(Tail(s))
                  IN  IF t # <<>> /\ t[1] = "]" THEN ParseOk(PyList(<<>>), Tail(t))
                      ELSE ParseArrayItems(t, <<>>)
             [] s[1] = "{" ->
                  LET t == SkipWs(Tail(s))
                  IN  IF t # <<>> /\ t[1] = "}" THEN ParseOk(PyDict(<<>>, <<>>), Tail(t))
                      ELSE ParseObjectItems(t, PyDict(<<>>, <<>>))
             [] StartsWith(s, S_null) -> ParseOk(PyNone, Drop(s, 4))
             [] StartsWith(s, S_true) -> ParseOk(PyBool(TRUE), Drop(s, 4))
             [] StartsWith(s, S_false) -> ParseOk(PyBool(FALSE), Drop(s, 5))
             [] OTHER -> ParseFail

\* s is positioned where an element must start; acc holds the elements so far
ParseArrayItems(s, acc) ==
  LET r == ParseValue(s)
  IN  IF ~r.ok THEN ParseFail
      ELSE LET t == SkipWs(r.rest)
           IN  IF t = <<>> THEN ParseFail
               ELSE IF t[1] = "]" THEN ParseOk(PyList(Append(acc, r.v)), Tail(t))
               ELSE IF t[1] = "," THEN ParseArrayItems(Tail(t), Append(acc, r.v))
               ELSE ParseFail

\* s is positioned where a key must start; acc is the dict built so far
ParseObjectItems(s0, acc) ==
  LET s == SkipWs(s0)
  IN  IF s = <<>> \/ s[1] # "\"" THEN ParseFail
      ELSE LET k == ParseString(Tail(s))
           IN  IF ~k.ok THEN ParseFail
               ELSE LET c == SkipWs(k.rest)
                    IN  IF c = <<>> \/ c[1] # ":" THEN ParseFail
                        ELSE LET r == ParseValue(Tail(c))
                             IN  IF ~r.ok THEN ParseFail
                                 ELSE LET t == SkipWs(r.rest)
                                          d == DictPut(acc, k.v.s, r.v)
                                      IN  IF t = <<>> THEN ParseFail
                                          ELSE IF t[1] = "}" THEN ParseOk(d, Tail(t))
                                          ELSE IF t[1] = "," THEN ParseObjectItems(Tail(t), d)
                                          ELSE ParseFail

\* json.loads(s): raised stands for json.JSONDecodeError
json_loads(s) ==
  LET r == ParseValue(s)
  IN  IF r.ok /\ SkipWs(r.rest) = <<>>
      THEN [raised |-> FALSE, v |-> r.v]
      ELSE [raised |-> TRUE, v |-> PyNone]

(***************************************************************************)
(* Python operations the stages apply to parsed values.                    *)
(***************************************************************************)
PyRaise == [raised |-> TRUE, v |-> PyNone]
PyOk(v) == [raised |-> FALSE, v |-> v]

\* v[key] with a str key: only a dict holding the key does not raise
Subscript(v, key) ==
  IF v.t = "dict" /\ HasKey(v, key) THEN PyOk(DictGet(v, key)) ELSE PyRaise

\* iter(v): the elements a for-loop visits; raised for a non-iterable
Iterate(v) ==
  CASE v.t = "list" -> [raised |-> FALSE, items |-> v.items]
    [] v.t = "str" -> [raised |-> FALSE, items |-> [i \in 1..Len(v.s) |-> PyStr(<<v.s[i]>>)]]
    [] v.t = "dict" -> [raised |-> FALSE, items |-> [i \in 1..Len(v.keys) |-> PyStr(v.keys[i])]]
    [] OTHER -> [raised |-> TRUE, items |-> <<>>]

\* sep.join(v): raised unless v is an iterable of str
StrJoin(sep, v) ==
  LET it == Iterate(v)
  IN  IF it.raised \/ \E i \in 1..Len(it.items) : it.items[i].t # "str"
      THEN [raised |-> TRUE, s |-> <<>>]
      ELSE [raised |-> FALSE, s |-> Join(sep, [i \in 1..Len(it.items) |-> it.items[i].s])]

(***************************************************************************)
(* Document and the three stages.                                          *)
(***************************************************************************)
Document(content, source, doc_id) ==
  [content |-> content, source |-> source, doc_id |-> doc_id]

\* What the chat-completion request produces: a message text, a message
\* whose content is None, or an exception of the client.
ApiText(text) == [kind |-> "text", text |-> text]
ApiNone == [kind |-> "none", text |-> <<>>]
ApiError == [kind |-> "error", text |-> <<>>]

_call_llm(api) ==
  IF api.kind = "text"
  THEN [raised |-> FALSE, ret |-> strip(api.text)]
  ELSE [raised |-> TRUE, ret |-> <<>>]

\* "<label><i> (<source>): <content>" joined with blank lines
RenderDocs(label, docs) ==
  Join(<<"\n", "\n">>,
       [i \in 1..Len(docs) |->
          label \o Dec(i - 1) \o <<" ", "(">> \o docs[i].source \o <<")", ":", " ">>
          \o PyFormat(docs[i].content)])

Prompt(template, question, context, consolidated_context) ==
  [template |-> template, question |-> question, context |-> context,
   consolidated_context |-> consolidated_context]

GeneratePrompt(question) == Prompt("generate", question, <<>>, <<>>)

ConsolidatePrompt(question, documents) ==
  Prompt("consolidate", question, RenderDocs(S_Document, documents), <<>>)

FinalizePrompt(question, initial_docs, consolidated_docs) ==
  Prompt("finalize", question,
         RenderDocs(S_Initial \o S_Document, initial_docs),
         RenderDocs(S_Consolidated \o S_Document, consolidated_docs))

\* variant: one passage per configured max_generated_passages
generate_internal_knowledge_per_max(self, api) ==
  LET response == _call_llm(api)
  IN  IF response.raised THEN [raised |-> TRUE, ret |-> <<>>]
      ELSE IF ~Contains(response.ret, S_IDontKnow)
      THEN [raised |-> FALSE,
            ret |-> [i \in 1..self.max_generated_passages |->
                       Document(PyStr(response.ret), S_internal,
                                S_internal \o <<"_">> \o Dec(i - 1))]]
      ELSE [raised |-> FALSE, ret |-> <<>>]

generate_internal_knowledge(self, api) ==
  LET response == _call_llm(api)
  IN  IF response.raised THEN [raised |-> TRUE, ret |-> <<>>]
      ELSE IF ~Contains(response.ret, S_IDontKnow)
      THEN [raised |-> FALSE,
            ret |-> <<Document(PyStr(response.ret), S_internal, S_internal_0)>>]
      ELSE [raised |-> FALSE, ret |-> <<>>]

\* variant: the origin ids are joined with ", "
ConsolidatedDocument_space_join(doc) ==
  LET content == Subscript(doc, S_content)
      source == Subscript(doc, S_source)
      joined == IF source.raised THEN [raised |-> TRUE, s |-> <<>>]
                ELSE StrJoin(<<",", " ">>, source.v)
      group == Subscript(doc, S_consistency_group)
  IN  IF content.raised \/ joined.raised \/ group.raised
      THEN [raised |-> TRUE, doc |-> Document(PyNone, <<>>, <<>>)]
      ELSE [raised |-> FALSE,
            doc |-> Document(content.v, joined.s, S_consolidated_ \o PyFormat(group.v))]

\* one element of the list comprehension of consolidate_knowledge
ConsolidatedDocument(doc) ==
  LET content == Subscript(doc, S_content)
      source == Subscript(doc, S_source)
      joined == IF source.raised THEN [raised |-> TRUE, s |-> <<>>]
                ELSE StrJoin(<<",">>, source.v)
      group == Subscript(doc, S_consistency_group)
  IN  IF content.raised \/ joined.raised \/ group.raised
      THEN [raised |-> TRUE, doc |-> Document(PyNone, <<>>, <<>>)]
      ELSE [raised |-> FALSE,
            doc |-> Document(content.v, joined.s, S_consolidated_ \o PyFormat(group.v))]

\* variant: the _call_llm call sits inside the try block
consolidate_knowledge_call_in_try(documents, api) ==
  LET response == _call_llm(api)
      consolidated == json_loads(response.ret)
      it == Iterate(consolidated.v)
      built == [i \in 1..Len(it.items) |-> ConsolidatedDocument(it.items[i])]
  IN  IF response.raised \/ consolidated.raised \/ it.raised
         \/ \E i \in 1..Len(it.items) : built[i].raised
      THEN [raised |-> FALSE, ret |-> documents, documents |-> documents]
      ELSE [raised |-> FALSE,
            ret |-> [i \in 1..Len(it.items) |-> built[i].doc],
            documents |-> documents]

\* variant: the parsed documents replace the contents of the argument list
consolidate_knowledge_in_place(documents, api) ==
  LET response == _call_llm(api)
      consolidated == json_loads(response.ret)
      it == Iterate(consolidated.v)
      built == [i \in 1..Len(it.items) |-> ConsolidatedDocument(it.items[i])]
  IN  IF response.raised
      THEN [raised |-> TRUE, ret |-> <<>>, documents |-> documents]
      ELSE IF consolidated.raised \/ it.raised
              \/ \E i \in 1..Len(it.items) : built[i].raised
      THEN [raised |-> FALSE, ret |-> documents, documents |-> documents]
      ELSE [raised |-> FALSE,
            ret |-> [i \in 1..Len(it.items) |-> built[i].doc],
            documents |-> [i \in 1..Len(it.items) |-> built[i].doc]]

\* ret is the returned list; documents is the argument list after the call
consolidate_knowledge(documents, api) ==
  LET response == _call_llm(api)
      consolidated == json_loads(response.ret)
      it == Iterate(consolidated.v)
      built == [i \in 1..Len(it.items) |-> ConsolidatedDocument(it.items[i])]
  IN  IF response.raised
      THEN [raised |-> TRUE, ret |-> <<>>, documents |-> documents]
      ELSE IF consolidated.raised \/ it.raised
              \/ \E i \in 1..Len(it.items) : built[i].raised
      THEN [raised |-> FALSE, ret |-> documents, documents |-> documents]
      ELSE [raised |-> FALSE,
            ret |-> [i \in 1..Len(it.items) |-> built[i].doc],
            documents |-> documents]

\* variant: only the JSON decoding error is caught
finalize_answer_decode_error_only(api) ==
  LET response == _call_llm(api)
      result == json_loads(response.ret)
      answer == Subscript(result.v, S_answer)
  IN  IF response.raised THEN [raised |-> TRUE, ret |-> Unset]
      ELSE IF result.raised THEN [raised |-> FALSE, ret |-> PyStr(response.ret)]
      ELSE IF answer.raised THEN [raised |-> TRUE, ret |-> Unset]
      ELSE [raised |-> FALSE, ret |-> answer.v]

finalize_answer(api) ==
  LET response == _call_llm(api)
      result == json_loads(response.ret)
      answer == Subscript(result.v, S_answer)
  IN  IF response.raised THEN [raised |-> TRUE, ret |-> Unset]
      ELSE IF result.raised \/ answer.raised
      THEN [raised |-> FALSE, ret |-> PyStr(response.ret)]
      ELSE [raised |-> FALSE, ret |-> answer.v]

\* variant: the ids are numbered from 1
ExternalDocs_from_one(retrieved_docs) ==
  [i \in 1..Len(retrieved_docs) |->
     Document(PyStr(retrieved_docs[i]), S_external, S_external_ \o Dec(i))]

\* lines 139-142 of answer_question
ExternalDocs(retrieved_docs) ==
  [i \in 1..Len(retrieved_docs) |->
     Document(PyStr(retrieved_docs[i]), S_external, S_external_ \o Dec(i - 1))]

(***************************************************************************)
(* Inputs.  Texts the caller and the model can supply, and a writer of     *)
(* JSON text used to spell the modelled responses.                         *)
(***************************************************************************)
T_Paris == <<"P", "a", "r", "i", "s">>
T_Lyon == <<"L", "y", "o", "n">>
T_g1 == <<"g", "1">>
T_g2 == <<"g", "2">>
T_high == <<"h", "i", "g", "h">>
T_confidence == <<"c", "o", "n", "f", "i", "d", "e", "n", "c", "e">>
T_external_0 == S_external_ \o <<"0">>
T_external_1 == S_external_ \o <<"1">>

Q_capital == <<"c", "a", "p", "i", "t", "a", "l", "?">>
Q_largest == <<"l", "a", "r", "g", "e", "s", "t", "?">>

Q(s) == <<"\"">> \o s \o <<"\"">>
JArr(parts) == <<"[">> \o Join(<<",", " ">>, parts) \o <<"]">>
JObj(keys, vals) ==
  <<"{">> \o Join(<<",", " ">>, [i \in 1..Len(keys) |-> Q(keys[i]) \o <<":", " ">> \o vals[i]])
  \o <<"}">>
JEntry(content, source, group) ==
  JObj(<<S_content, S_source, S_consistency_group>>, <<content, source, group>>)

Questions == {Q_capital, Q_largest}
Passages == {T_Paris, T_Lyon}

RECURSIVE SeqsUpTo(_, _)
SeqsUpTo(S, n) ==
  IF n = 0 THEN {<<>>}
  ELSE LET shorter == SeqsUpTo(S, n - 1)
       IN  shorter \cup {Append(q, x) : q \in {p \in shorter : Len(p) = n - 1}, x \in S}

PassageLists == SeqsUpTo(Passages, MaxPassages)

\* responses of the model to the generator prompt
GenTexts ==
  { T_Paris,
    S_IDontKnow,
    <<" ">> \o T_Paris \o <<".", " ">> \o S_IDontKnow \o <<" ", "m", "o", "r", "e", "\n">>,
    <<"I", " ", "d", "o", "n", "t", " ", "k", "n", "o", "w">>,
    <<"i", " ", "d", "o", "n", "'", "t", " ", "k", "n", "o", "w">>,
    <<>> }

\* well-formed lists of entries of the expected shape
ConsWellFormedTexts ==
  { JArr(<<JEntry(Q(T_Paris), JArr(<<Q(T_external_0), Q(S_internal_0)>>), Q(T_g1)),
           JEntry(Q(T_Lyon), JArr(<<Q(T_external_1)>>), Q(T_g2))>>),
    JArr(<<JEntry(Q(T_Paris), JArr(<<>>), Q(T_g1))>>),
    JArr(<<JEntry(Q(T_Paris), JArr(<<Q(S_external)>>), Q(<<"0">>))>>),
    <<" ">> \o JArr(<<JEntry(Q(T_Lyon), JArr(<<Q(S_internal_0)>>), Q(T_g2))>>) \o <<"\n">>,
    JArr(<<JObj(<<S_content, S_content, S_source, S_consistency_group>>,
                <<Q(T_Lyon), Q(T_Paris), JArr(<<Q(T_external_0)>>), Q(T_g1)>>)>>),
    JArr(<<>>) }

\* responses that are not a well-formed list of entries of the expected shape
ConsMalformedTexts ==
  { <<"S", "o", "r", "r", "y">>,
    <<"[", "{">>,
    <<"[", "1", ",", "]">>,
    <<"0", "1">>,
    <<>>,
    <<"{", "}">>,
    Q(<<>>),
    Q(<<"a", "b">>),
    <<"5">>,
    S_null,
    JArr(<<<<"5">>>>),
    JObj(<<S_content>>, <<Q(T_Paris)>>),
    JArr(<<JObj(<<S_content, S_source>>, <<Q(T_Paris), JArr(<<Q(T_external_0)>>)>>)>>),
    JArr(<<JEntry(Q(T_Paris), Q(<<"a", "b">>), Q(T_g1))>>),
    JArr(<<JEntry(<<"5">>, JArr(<<Q(T_external_0)>>), <<"7">>)>>),
    JArr(<<JEntry(Q(T_Paris), JArr(<<<<"1">>>>), Q(T_g1))>>),
    JArr(<<JEntry(Q(T_Paris), JObj(<<<<"a">>, <<"b">>>>, <<<<"1">>, <<"2">>>>), S_null)>>),
    JArr(<<JEntry(Q(T_Paris), JArr(<<Q(T_external_0)>>), Q(T_g1)),
           JObj(<<S_content>>, <<Q(T_Lyon)>>)>>) }

ConsTexts == ConsWellFormedTexts \cup ConsMalformedTexts

\* responses of the model to the finalizer prompt
FinTexts ==
  { JObj(<<S_answer, T_confidence>>, <<Q(T_Paris), Q(T_high)>>),
    <<"\n", " ">> \o JObj(<<S_answer>>, <<Q(T_Lyon)>>) \o <<" ">>,
    JObj(<<S_answer, S_answer>>, <<Q(T_Lyon), Q(T_Paris)>>),
    JObj(<<S_answer>>, <<<<"4", "2">>>>),
    JObj(<<S_answer>>, <<S_null>>),
    JObj(<<S_answer>>, <<JArr(<<Q(T_Paris)>>)>>),
    JObj(<<T_confidence>>, <<Q(T_high)>>),
    JArr(<<Q(S_answer)>>),
    Q(S_answer),
    <<"7">>,
    <<"P", "a", "r", "i", "s", " ", "i", "s", " ", "i", "t">>,
    <<"{">> \o Q(S_answer),
    <<>> }

ApiOutcomes(texts) == {ApiText(t) : t \in texts} \cup {ApiNone, ApiError}

(***************************************************************************)
(* State.  Every variable but self and llm is a function of the            *)
(* invocation of answer_question (a run) it belongs to.                    *)
(***************************************************************************)
VARIABLES
  self,               \* the AstuteRAG object: model, max_generated_passages
  llm,                \* the model behind the client: prompt -> outcome, as far as observed
  pc,                 \* position of the run in answer_question
  question,           \* argument question
  retrieved_docs,     \* argument retrieved_docs (the caller's list)
  external_docs,      \* local external_docs
  internal_docs,      \* local internal_docs
  all_docs,           \* local all_docs
  consolidated_docs,  \* local consolidated_docs
  answer,             \* local answer
  result,             \* the value answer_question returned to its caller
  calls,              \* the _call_llm calls made so far, with the stage's arguments
  returns             \* what the client produced for each finished call

vars == <<self, llm, pc, question, retrieved_docs, external_docs, internal_docs, all_docs,
          consolidated_docs, answer, result, calls, returns>>

Runs == DOMAIN pc

\* variant: the value is kept in one place shared by all runs
Local_shared(var, r) == var[CHOOSE q \in DOMAIN var : \A o \in DOMAIN var : q <= o]

\* a local variable or argument of run r of answer_question
Local(var, r) == var[r]

Call(stage, prompt, documents, cdocs) ==
  [stage |-> stage, prompt |-> prompt, documents |-> documents, consolidated_docs |-> cdocs]

\* line 148
AllDocs(external, internal) == external \o internal

\* variant: consolidation is skipped
NextStage_skip_consolidate(p, raised) ==
  IF raised THEN "raised"
  ELSE CASE p = "generate_wait" -> "finalize"
         [] p = "consolidate_wait" -> "finalize"
         [] p = "finalize_wait" -> "return"
         [] OTHER -> "done"

\* the statement answer_question executes after the stage at position p
\* finished; an exception of the stage leaves answer_question at once
NextStage(p, raised) ==
  IF raised THEN "raised"
  ELSE CASE p = "generate_wait" -> "consolidate"
         [] p = "consolidate_wait" -> "finalize"
         [] p = "finalize_wait" -> "return"
         [] OTHER -> "done"

\* line 156
ReturnValue(ans) == ans

\* the model answers a prompt it has answered before in the same way
Answers(prompt, api) == prompt \in DOMAIN llm => llm[prompt] = api
Observe(prompt, api) == [p \in DOMAIN llm \cup {prompt} |-> IF p = prompt THEN api ELSE llm[p]]

InitWith(runs, generated) ==
  /\ self \in {[model |-> "gpt-4", max_generated_passages |-> n] : n \in generated}
  /\ llm = <<>>
  /\ pc = [r \in runs |-> "idle"]
  /\ question = [r \in runs |-> <<>>]
  /\ retrieved_docs = [r \in runs |-> <<>>]
  /\ external_docs = [r \in runs |-> <<>>]
  /\ internal_docs = [r \in runs |-> <<>>]
  /\ all_docs = [r \in runs |-> <<>>]
  /\ consolidated_docs = [r \in runs |-> <<>>]
  /\ answer = [r \in runs |-> Unset]
  /\ result = [r \in runs |-> Unset]
  /\ calls = [r \in runs |-> <<>>]
  /\ returns = [r \in runs |-> <<>>]

\* answer_question is entered: lines 134-142
Begin(r, qs, ps) ==
  /\ pc[r] = "idle"
  /\ \E q \in qs, docs \in ps :
       /\ question' = [question EXCEPT ![r] = q]
       /\ retrieved_docs' = [retrieved_docs EXCEPT ![r] = docs]
       /\ external_docs' = [external_docs EXCEPT ![r] = ExternalDocs(docs)]
  /\ pc' = [pc EXCEPT ![r] = "generate"]
  /\ UNCHANGED <<self, llm, internal_docs, all_docs, consolidated_docs, answer, result,
                 calls, returns>>

\* lines 145, 47-54: the generator sends its prompt
GenerateCall(r) ==
  /\ pc[r] = "generate"
  /\ calls' = [calls EXCEPT ![r] =
                 Append(@, Call("generate", GeneratePrompt(Local(question, r)), <<>>, <<>>))]
  /\ pc' = [pc EXCEPT ![r] = "generate_wait"]
  /\ UNCHANGED <<self, llm, question, retrieved_docs, external_docs, internal_docs, all_docs,
                 consolidated_docs, answer, result, returns>>

\* lines 54-63, 145: the request finishes and the generator returns
GenerateReturn(r, outs) ==
  /\ pc[r] = "generate_wait"
  /\ \E api \in outs :
       LET prompt == calls[r][Len(calls[r])].prompt
           res == generate_internal_knowledge(self, api)
       IN  /\ Answers(prompt, api)
           /\ llm' = Observe(prompt, api)
           /\ returns' = [returns EXCEPT ![r] = Append(@, api)]
           /\ internal_docs' = [internal_docs EXCEPT ![r] = IF res.raised THEN @ ELSE res.ret]
           /\ pc' = [pc EXCEPT ![r] = NextStage(pc[r], res.raised)]
  /\ UNCHANGED <<self, question, retrieved_docs, external_docs, all_docs, consolidated_docs,
                 answer, result, calls>>

\* lines 148, 151, 71-87: the working set is built and the consolidator sends its prompt
ConsolidateCall(r) ==
  /\ pc[r] = "consolidate"
  /\ LET docs == AllDocs(Local(external_docs, r), Local(internal_docs, r))
     IN  /\ all_docs' = [all_docs EXCEPT ![r] = docs]
         /\ calls' = [calls EXCEPT ![r] =
                        Append(@, Call("consolidate",
                                       ConsolidatePrompt(Local(question, r), docs), docs, <<>>))]
  /\ pc' = [pc EXCEPT ![r] = "consolidate_wait"]
  /\ UNCHANGED <<self, llm, question, retrieved_docs, external_docs, internal_docs,
                 consolidated_docs, answer, result, returns>>

\* lines 87-97, 151: the request finishes and the consolidator returns
ConsolidateReturn(r, outs) ==
  /\ pc[r] = "consolidate_wait"
  /\ \E api \in outs :
       LET prompt == calls[r][Len(calls[r])].prompt
           res == consolidate_knowledge(Local(all_docs, r), api)
       IN  /\ Answers(prompt, api)
           /\ llm' = Observe(prompt, api)
           /\ returns' = [returns EXCEPT ![r] = Append(@, api)]
           /\ all_docs' = [all_docs EXCEPT ![r] = res.documents]
           /\ consolidated_docs' =
                [consolidated_docs EXCEPT ![r] = IF res.raised THEN @ ELSE res.ret]
           /\ pc' = [pc EXCEPT ![r] = NextStage(pc[r], res.raised)]
  /\ UNCHANGED <<self, question, retrieved_docs, external_docs, internal_docs, answer, result,
                 calls>>

\* lines 154, 106-126: the finalizer sends its prompt
FinalizeCall(r) ==
  /\ pc[r] = "finalize"
  /\ calls' = [calls EXCEPT ![r] =
                 Append(@, Call("finalize",
                                FinalizePrompt(Local(question, r), Local(all_docs, r),
                                               Local(consolidated_docs, r)),
                                Local(all_docs, r), Local(consolidated_docs, r)))]
  /\ pc' = [pc EXCEPT ![r] = "finalize_wait"]
  /\ UNCHANGED <<self, llm, question, retrieved_docs, external_docs, internal_docs, all_docs,
                 consolidated_docs, answer, result, returns>>

\* lines 126-132, 154: the request finishes and the finalizer returns
FinalizeReturn(r, outs) ==
  /\ pc[r] = "finalize_wait"
  /\ \E api \in outs :
       LET prompt == calls[r][Len(calls[r])].prompt
           res == finalize_answer(api)
       IN  /\ Answers(prompt, api)
           /\ llm' = Observe(prompt, api)
           /\ returns' = [returns EXCEPT ![r] = Append(@, api)]
           /\ answer' = [answer EXCEPT ![r] = IF res.raised THEN @ ELSE res.ret]
           /\ pc' = [pc EXCEPT ![r] = NextStage(pc[r], res.raised)]
  /\ UNCHANGED <<self, question, retrieved_docs, external_docs, internal_docs, all_docs,
                 consolidated_docs, result, calls>>

\* line 156
Return(r) ==
  /\ pc[r] = "return"
  /\ result' = [result EXCEPT ![r] = ReturnValue(Local(answer, r))]
  /\ pc' = [pc EXCEPT ![r] = "done"]
  /\ UNCHANGED <<self, llm, question, retrieved_docs, external_docs, internal_docs, all_docs,
                 consolidated_docs, answer, calls, returns>>

(***************************************************************************)
(* Spec: one invocation of answer_question against a model that may give   *)
(* any of the modelled responses or fail.                                  *)
(***************************************************************************)
Init == InitWith({1}, 0..MaxGenerated)

Next ==
  \E r \in Runs :
    \/ Begin(r, Questions, PassageLists)
    \/ GenerateCall(r)
    \/ GenerateReturn(r, ApiOutcomes(GenTexts))
    \/ ConsolidateCall(r)
    \/ ConsolidateReturn(r, ApiOutcomes(ConsTexts))
    \/ FinalizeCall(r)
    \/ FinalizeReturn(r, ApiOutcomes(FinTexts))
    \/ Return(r)

Spec == Init /\ [][Next]_vars

TypeOK == \A r \in Runs : pc[r] \in {"idle", "generate", "generate_wait", "consolidate",
                                     "consolidate_wait", "finalize", "finalize_wait",
                                     "return", "done", "raised"}

(***************************************************************************)
(* SpecConc: two invocations of answer_question on the same object, their  *)
(* steps interleaved in any order (one after the other included), against  *)
(* a deterministic model.                                                  *)
(***************************************************************************)
ConcPassageLists == {<<>>, <<T_Paris>>}
ConcGenTexts == {T_Paris, S_IDontKnow}
ConcConsTexts ==
  { JArr(<<JEntry(Q(T_Paris), JArr(<<Q(T_external_0)>>), Q(T_g1))>>),
    <<"S", "o", "r", "r", "y">> }
ConcFinTexts == {JObj(<<S_answer>>, <<Q(T_Lyon)>>), <<"P", "a", "r", "i", "s">>}

InitConc == InitWith({1, 2}, 0..MaxGenerated)

NextConc ==
  \E r \in Runs :
    \/ Begin(r, Questions, ConcPassageLists)
    \/ GenerateCall(r)
    \/ GenerateReturn(r, {ApiText(t) : t \in ConcGenTexts})
    \/ ConsolidateCall(r)
    \/ ConsolidateReturn(r, {ApiText(t) : t \in ConcConsTexts})
    \/ FinalizeCall(r)
    \/ FinalizeReturn(r, {ApiText(t) : t \in ConcFinTexts} \cup {ApiError})
    \/ Return(r)

SpecConc == InitConc /\ [][NextConc]_vars

(***************************************************************************)
(* Properties.                                                             *)
(***************************************************************************)
StageOrder == <<"generate", "consolidate", "finalize">>

\* the text _call_llm handed to the stage that made the i-th call of run r
ResponseOf(r, i) == strip(returns[r][i].text)
Returned(r, i) == Len(returns[r]) >= i /\ returns[r][i].kind = "text"

\* a list of objects, each with a str content, a list of str under source
\* and a str consistency_group
ExpectedShape(v) ==
  /\ v.t = "list"
  /\ \A j \in 1..Len(v.items) :
       LET e == v.items[j]
       IN  /\ e.t = "dict"
           /\ HasKey(e, S_content) /\ HasKey(e, S_source) /\ HasKey(e, S_consistency_group)
           /\ DictGet(e, S_content).t = "str"
           /\ DictGet(e, S_source).t = "list"
           /\ \A k \in 1..Len(DictGet(e, S_source).items) :
                DictGet(e, S_source).items[k].t = "str"
           /\ DictGet(e, S_consistency_group).t = "str"

WellFormedResponse(text) ==
  LET p == json_loads(text) IN ~p.raised /\ ExpectedShape(p.v)

\* C1: whenever the consolidator's response is not a well-formed list of
\* entries of the expected shape, consolidate_knowledge returns exactly the
\* documents sequence it was given.
C1_FailSoft ==
  \A r \in Runs :
    (Returned(r, 2) /\ ~WellFormedResponse(ResponseOf(r, 2)))
      => /\ pc[r] \in {"finalize", "finalize_wait", "return", "done", "raised"}
         /\ Len(calls[r]) = 3 => calls[r][3].consolidated_docs = calls[r][2].documents
         /\ consolidated_docs[r] = calls[r][2].documents

\* C2: finalize_answer returns the value of the answer field when the
\* response parses as an object that has it, and the response text itself
\* in every other case.
C2_FinalizeReturns ==
  \A r \in Runs :
    Returned(r, 3)
      => LET response == ResponseOf(r, 3)
             p == json_loads(response)
         IN  /\ pc[r] \in {"return", "done"}
             /\ answer[r] = IF ~p.raised /\ p.v.t = "dict" /\ HasKey(p.v, S_answer)
                            THEN DictGet(p.v, S_answer)
                            ELSE PyStr(response)

C2_Witness ==
  \E r \in Runs :
    /\ pc[r] = "done"
    /\ Returned(r, 3)
    /\ ~json_loads(ResponseOf(r, 3)).raised
    /\ json_loads(ResponseOf(r, 3)).v.t = "list"
    /\ answer[r] = PyStr(ResponseOf(r, 3))

\* C3: while no model call fails, the calls of a run are the generator's,
\* the consolidator's and the finalizer's, in this order and each made only
\* after the previous one returned; a finished run has made exactly these
\* three calls and returned the finalizer's value; with an empty working
\* set and an empty consolidator result the finalizer is still called, with
\* two empty context blocks.
C3_ThreeCallsInOrder ==
  \A r \in Runs :
    (\A i \in 1..Len(returns[r]) : returns[r][i].kind = "text")
      => /\ pc[r] # "raised"
         /\ Len(calls[r]) <= 3
         /\ \A i \in 1..Len(calls[r]) : calls[r][i].stage = StageOrder[i]
         /\ Len(calls[r]) =
              Len(returns[r]) +
                (IF pc[r] \in {"generate_wait", "consolidate_wait", "finalize_wait"} THEN 1 ELSE 0)
         /\ pc[r] \in {"return", "done"} => Len(returns[r]) = 3
         /\ pc[r] = "done" => result[r] = answer[r] /\ answer[r] # Unset
         /\ (pc[r] = "finalize" /\ all_docs[r] = <<>> /\ consolidated_docs[r] = <<>>)
              => ENABLED FinalizeCall(r)
         /\ (Len(calls[r]) = 3 /\ calls[r][3].documents = <<>>
               /\ calls[r][3].consolidated_docs = <<>>)
              => /\ calls[r][3].prompt.context = <<>>
                 /\ calls[r][3].prompt.consolidated_context = <<>>

C3_Witness ==
  \E r \in Runs :
    /\ pc[r] = "done"
    /\ retrieved_docs[r] = <<>>
    /\ Contains(ResponseOf(r, 1), S_IDontKnow)
    /\ json_loads(ResponseOf(r, 2)).raised
    /\ calls[r][3].prompt.context = <<>>
    /\ calls[r][3].prompt.consolidated_context = <<>>
    /\ result[r] = answer[r]

\* C4: a failure of the model-access call of any stage ends the run with
\* the failure: no value is returned, no later call is made, and no stage
\* turns the failure into a result.
C4_FailurePropagates ==
  \A r \in Runs :
    \A i \in 1..Len(returns[r]) :
      returns[r][i].kind # "text"
        => /\ pc[r] = "raised"
           /\ result[r] = Unset
           /\ answer[r] = Unset
           /\ Len(calls[r]) = i
           /\ Len(returns[r]) = i
           /\ i <= 2 => consolidated_docs[r] = <<>>

C4_Witness ==
  \E r \in Runs :
    /\ pc[r] = "raised"
    /\ Len(returns[r]) = 2
    /\ returns[r][2].kind = "error"
    /\ calls[r][2].documents # <<>>

\* C5: whenever all three model calls return a text, answer_question
\* returns normally and the value it returns is a text.
C5_AlwaysText ==
  \A r \in Runs :
    (Returned(r, 1) /\ Returned(r, 2) /\ Returned(r, 3))
      => /\ pc[r] \in {"return", "done"}
         /\ answer[r].t = "str"
         /\ pc[r] = "done" => result[r].t = "str"

C7_WorkingSet ==
  \A r \in Runs :
    Len(calls[r]) >= 2
      => LET ws == calls[r][2].documents
             n == Len(retrieved_docs[r])
         IN  /\ Len(internal_docs[r]) <= 1
             /\ Len(ws) = n + Len(internal_docs[r])
             /\ \A i \in 1..n :
                  ws[i] = [content |-> PyStr(retrieved_docs[r][i]),
                           source |-> S_external,
                           doc_id |-> S_external_ \o Dec(i - 1)]
             /\ \A i \in 1..Len(internal_docs[r]) :
                  /\ ws[n + i] = internal_docs[r][i]
                  /\ ws[n + i].source = S_internal
             /\ \A i, j \in 1..Len(ws) : i # j => ws[i].doc_id # ws[j].doc_id

C7_Witness ==
  \E r \in Runs :
    /\ Len(calls[r]) >= 2
    /\ Len(retrieved_docs[r]) = MaxPassages
    /\ Len(internal_docs[r]) = 1
    /\ Len(calls[r][2].documents) = MaxPassages + 1

Known(prompt) ==
  IF prompt \in DOMAIN llm THEN llm[prompt] ELSE [kind |-> "unknown", text |-> <<>>]

\* the outcome of answer_question(q, docs) executed on its own against llm
Alone(q, docs) ==
  LET g == generate_internal_knowledge(self, Known(GeneratePrompt(q)))
      ws == AllDocs(ExternalDocs(docs), g.ret)
      c == consolidate_knowledge(ws, Known(ConsolidatePrompt(q, ws)))
      f == finalize_answer(Known(FinalizePrompt(q, c.documents, c.ret)))
  IN  IF g.raised \/ (~g.raised /\ c.raised) \/ (~g.raised /\ ~c.raised /\ f.raised)
      THEN [raised |-> TRUE, ret |-> Unset]
      ELSE [raised |-> FALSE, ret |-> ReturnValue(f.ret)]

\* C9: with two runs interleaved in any way against a deterministic model,
\* each run ends as it ends when executed alone, two runs with the same
\* inputs return the same value, and the shared object is never written.
C9_RunsIndependent ==
  /\ \A r \in Runs :
       /\ pc[r] = "done"
            => Alone(question[r], retrieved_docs[r]) = [raised |-> FALSE, ret |-> result[r]]
       /\ pc[r] = "raised" => Alone(question[r], retrieved_docs[r]).raised
  /\ \A r1, r2 \in Runs :
       (pc[r1] = "done" /\ pc[r2] = "done" /\ question[r1] = question[r2]
          /\ retrieved_docs[r1] = retrieved_docs[r2])
         => result[r1] = result[r2]
  /\ self \in {[model |-> "gpt-4", max_generated_passages |-> n] : n \in 0..MaxGenerated}

C9_Witness ==
  /\ pc[1] = "done" /\ pc[2] = "done"
  /\ question[1] # question[2]
  /\ retrieved_docs[1] # retrieved_docs[2]
  /\ result[1] # result[2]
  /\ consolidated_docs[1] # consolidated_docs[2]

\* C10: the working set the finalizer receives as initial_docs equals,
\* element by element, the one passed to the consolidator, whatever the
\* consolidator's response was; the caller's passages and the documents
\* built from them are never changed once built.
C10_NothingMutated ==
  /\ [](\A r \in Runs :
          /\ Len(calls[r]) = 3 => calls[r][3].documents = calls[r][2].documents
          /\ Len(calls[r]) >= 2 => all_docs[r] = calls[r][2].documents)
  /\ [][\A r \in Runs :
          /\ pc[r] # "idle"
               => /\ retrieved_docs'[r] = retrieved_docs[r]
                  /\ external_docs'[r] = external_docs[r]
          /\ Len(calls[r]) >= 2
               => /\ internal_docs'[r] = internal_docs[r]
                  /\ all_docs'[r] = all_docs[r]
          /\ Len(calls[r]) = 3 => consolidated_docs'[r] = consolidated_docs[r]]_vars

C10_Witness ==
  \E r \in Runs :
    /\ Len(calls[r]) = 3
    /\ Returned(r, 2)
    /\ WellFormedResponse(ResponseOf(r, 2))
    /\ consolidated_docs[r] # all_docs[r]
    /\ calls[r][3].documents # <<>>

====
